---- MODULE Spec2Model ----
(***************************************************************************)
(* A model of the AGXCL Python SDK: AgefixClient (agxcl_sdk/client.py) and *)
(* the TokenContract / NFTContract helpers (agxcl_sdk/contracts.py).       *)
(*                                                                         *)
(* Every public call is one synchronous round trip, so every call is one   *)
(* action.  The server is the environment: each request is answered by a   *)
(* response drawn from a bounded set (a transport exception, or a status   *)
(* with a body).  Text is a sequence of fragments, so that an f-string is  *)
(* the concatenation of its fragments and the empty string is <<>>.        *)
(***************************************************************************)
EXTENDS Integers, Sequences, FiniteSets, TLC

VARIABLES
    config,            \* AgefixClient.config, an AgefixConfig
    contract_address,  \* helper -> its contract_address attribute
    deployed,          \* helper -> address returned by its latest successful deploy
    constructed,       \* helper -> the contract_address its constructor was given
    inflight,          \* requests the session has sent and not yet got an answer to
    last               \* the latest public call: arguments, requests, response, outcome

vars == <<config, contract_address, deployed, constructed, inflight, last>>

---------------------------------------------------------------------------
(* Values *)

\* Python's None and JSON's null; no string the model draws equals it.
None == "None"

\* An `is None` test in place of `not v`.
Falsy_isnone(v) == v = None

\* `not v` for an Optional[str]: None and the empty string are falsy.
Falsy(v) == v = None \/ v = ""

\* requests' per-call timeout, in seconds.
Timeout == 30

RpcUrl == "https://rpc.agefix.com"
ChainId == "agefix-mainnet-1"
PrivateKeys == {None, "", "key1"}

\* AgefixConfig(rpc_url, chain_id, private_key=None)
AgefixConfig == [rpc_url : {RpcUrl}, chain_id : {ChainId}, private_key : PrivateKeys]

Helpers == {"token", "nft"}

\* What a helper's constructor may be given as contract_address.
CtorAddresses == {None, "", "0xold"}

\* What the server may answer as contractAddress.
ServerAddresses == {"0xabc", "0xdef", ""}

\* Marks a helper through which no deploy has succeeded yet.
NoDeploy == "NoDeploy"

---------------------------------------------------------------------------
(* Text *)

\* An f-string "<prefix>{text}": the fragments of prefix followed by those of text.
FString(prefix, text) == <<prefix>> \o text

\* str(KeyError(key)) is the repr of the key.
KeyErrorText(key) == <<"'", key, "'">>

\* str(HTTPError) as Response.raise_for_status builds it.
HTTPErrorText(status) ==
    IF status < 500 THEN <<ToString(status), " Client Error">>
                    ELSE <<ToString(status), " Server Error">>

JSONDecodeErrorText == <<"Expecting value: line 1 column 1 (char 0)">>
TypeErrorText == <<"list indices must be integers or slices, not str">>

---------------------------------------------------------------------------
(* Server responses *)

EmptyDict == [k \in {} |-> None]
Restrict(f, K) == [k \in K |-> f[k]]

\* A response body: not JSON at all, JSON that is no object, or a JSON object.
InvalidBody == [kind |-> "invalid", fields |-> EmptyDict]
ListBody == [kind |-> "list", fields |-> EmptyDict]
DictBody(f) == [kind |-> "dict", fields |-> f]

\* An object as the server may cut it short: one key missing, or no key at all.
Truncations(f) == {Restrict(f, DOMAIN f \ {k}) : k \in DOMAIN f} \cup {EmptyDict}

\* The bodies an endpoint may answer with: the objects `whole`, the
\* truncations of `sample`, a JSON value that is no object, and no JSON.
Bodies(whole, sample) ==
    {InvalidBody, ListBody} \cup {DictBody(f) : f \in whole \cup Truncations(sample)}

DeploySample == [contractAddress |-> "0xabc", txHash |-> "0x1", blockNumber |-> 10]
DeployWhole == {[DeploySample EXCEPT !.contractAddress = a] : a \in ServerAddresses}

QuerySample == [result |-> "500"]
QueryWhole == {QuerySample, [result |-> None]}

ExecuteSample == [txHash |-> "0x2", blockNumber |-> 11, gasUsed |-> 21000]
ExecuteWhole == {ExecuteSample}

ReceiptSample == [status |-> "confirmed", logs |-> "none"]
ReceiptWhole == {ReceiptSample}

BalanceSample == [balance |-> "1000"]
BalanceWhole == {BalanceSample, [balance |-> ""]}

GasSample == [gasEstimate |-> 21000]
GasWhole == {GasSample, [gasEstimate |-> -1]}

\* Messages of the exceptions the session may throw; an exception built
\* without arguments has the empty text.
ExceptionMessages == {<<>>, <<"Connection refused">>}

\* Status codes the server may answer with besides 200.
OtherStatuses == {201, 300, 404, 500}

\* What a request may come back with: the session throws, or it returns a
\* response with a status and a body.
Thrown(m) == [kind |-> "exception", message |-> m, status |-> 0, body |-> InvalidBody]
Answer(s, b) == [kind |-> "http", message |-> <<>>, status |-> s, body |-> b]

\* The responses of an endpoint: every exception, status 200 with every
\* body, and every other status with the complete sample object.
Responses(whole, sample) ==
    {Thrown(m) : m \in ExceptionMessages}
        \cup {Answer(200, b) : b \in Bodies(whole, sample)}
        \cup {Answer(s, DictBody(sample)) : s \in OtherStatuses}

DeployResponses == Responses(DeployWhole, DeploySample)
QueryResponses == Responses(QueryWhole, QuerySample)
ExecuteResponses == Responses(ExecuteWhole, ExecuteSample)
ReceiptResponses == Responses(ReceiptWhole, ReceiptSample)
BalanceResponses == Responses(BalanceWhole, BalanceSample)
GasResponses == Responses(GasWhole, GasSample)

\* The response slot of a call that sent no request.
NoResponse == [kind |-> "none", message |-> <<>>, status |-> 0, body |-> InvalidBody]
---------------------------------------------------------------------------
(* The steps inside a try block: each yields a value or throws a text *)

Value(v) == [ok |-> TRUE, val |-> v, text |-> <<>>]
Throw(text) == [ok |-> FALSE, val |-> None, text |-> text]

\* Response.raise_for_status(): throws HTTPError for 4xx and 5xx, and for
\* no other status.
raise_for_status(resp) ==
    IF 400 <= resp.status /\ resp.status < 600
    THEN Throw(HTTPErrorText(resp.status))
    ELSE Value(None)

\* Response.json(): the decoded body, or JSONDecodeError.
json(resp) ==
    IF resp.body.kind = "invalid" THEN Throw(JSONDecodeErrorText) ELSE Value(resp.body)

\* data[key]: TypeError on a value that is no object, KeyError on a missing key.
getitem(data, key) ==
    IF data.kind # "dict" THEN Throw(TypeErrorText)
    ELSE IF key \notin DOMAIN data.fields THEN Throw(KeyErrorText(key))
    ELSE Value(data.fields[key])

\* data[keys[1]], data[keys[2]], ... evaluated in that order: the first one
\* that throws decides, otherwise the values by key.
getitems(data, keys) ==
    LET bad == {i \in 1..Len(keys) : ~getitem(data, keys[i]).ok}
    IN  IF bad # {}
        THEN getitem(data, keys[CHOOSE i \in bad : \A j \in bad : i <= j])
        ELSE Value([i \in 1..Len(keys) |-> getitem(data, keys[i]).val])

\* session.post(...)/session.get(...), raise_for_status() and json() in
\* sequence: the decoded body, or the first exception thrown.
round_trip(resp) ==
    IF resp.kind = "exception" THEN Throw(resp.message)
    ELSE IF ~raise_for_status(resp).ok THEN raise_for_status(resp)
    ELSE json(resp)

---------------------------------------------------------------------------
(* Requests *)

ContentType == "application/json"

Post(cfg, path, payload) ==
    [method |-> "POST", url |-> <<cfg.rpc_url, path>>, json |-> payload,
     content_type |-> ContentType, timeout |-> Timeout]

Get(cfg, path, what) ==
    [method |-> "GET", url |-> <<cfg.rpc_url, path, what>>, json |-> None,
     content_type |-> ContentType, timeout |-> Timeout]

\* `if args is None: args = []`
DefaultArgs(args) == IF args = None THEN <<>> ELSE args

\* Marks a `value` argument the caller did not pass.
Omitted == "Omitted"

\* The parameter default `value: str = "0"`.
DefaultValue(value) == IF value = Omitted THEN "0" ELSE value

---------------------------------------------------------------------------
(* Outcomes of a public call *)

\* The call returned `v` after sending `reqs`.
Returned(reqs, v) ==
    [requests |-> reqs, raised |-> FALSE, value |-> v, exc |-> None, message |-> <<>>]

\* The call raised RuntimeError(message) after sending `reqs`.
RaisedRuntimeError(reqs, message) ==
    [requests |-> reqs, raised |-> TRUE, value |-> None, exc |-> "RuntimeError",
     message |-> message]

\* ContractDeployment with the address and the hash taken from each other's key.
ContractDeployment_swapped(address, hash, block) ==
    [contract_address |-> hash, transaction_hash |-> address, block_number |-> block]

ContractDeployment(address, hash, block) ==
    [contract_address |-> address, transaction_hash |-> hash, block_number |-> block]

\* QueryResult with the data and the error in each other's slot.
QueryResult_swapped(success, data, error) ==
    [success |-> success, data |-> error, error |-> data]

QueryResult(success, data, error) ==
    [success |-> success, data |-> data, error |-> error]

\* TransactionResult with the block number and the gas taken from each other's key.
TransactionResult_swapped(hash, block, gas, success) ==
    [tx_hash |-> hash, block_number |-> gas, gas_used |-> block, success |-> success]

TransactionResult(hash, block, gas, success) ==
    [tx_hash |-> hash, block_number |-> block, gas_used |-> gas, success |-> success]

---------------------------------------------------------------------------
(* AgefixClient *)

DeployRequest(cfg, contract_code, constructor_args) ==
    Post(cfg, "/deploy",
         [code |-> contract_code, args |-> DefaultArgs(constructor_args),
          chainId |-> cfg.chain_id, privateKey |-> cfg.private_key])

\* The try block of deploy_contract.
DeployTry(resp) ==
    LET data == round_trip(resp)
        got  == getitems(data.val, <<"contractAddress", "txHash", "blockNumber">>)
    IN  IF ~data.ok THEN data
        ELSE IF ~got.ok THEN got
        ELSE Value(ContractDeployment(got.val[1], got.val[2], got.val[3]))

\* deploy_contract with the signing-key precondition of execute_transaction.
deploy_contract_guarded(cfg, contract_code, constructor_args, resp) ==
    IF Falsy(cfg.private_key)
    THEN RaisedRuntimeError(<<>>, <<"Private key required for transactions">>)
    ELSE LET reqs == <<DeployRequest(cfg, contract_code, constructor_args)>>
             try  == DeployTry(resp)
         IN  IF try.ok THEN Returned(reqs, try.val)
             ELSE RaisedRuntimeError(reqs,
                      FString("Contract deployment failed: ", try.text))

deploy_contract(cfg, contract_code, constructor_args, resp) ==
    LET reqs == <<DeployRequest(cfg, contract_code, constructor_args)>>
        try  == DeployTry(resp)
    IN  IF try.ok THEN Returned(reqs, try.val)
        ELSE RaisedRuntimeError(reqs, FString("Contract deployment failed: ", try.text))

\* A QueryRequest that carries the signing key like /deploy and /execute do.
QueryRequest_withkey(cfg, address, method, args) ==
    Post(cfg, "/query",
         [contractAddress |-> address, method |-> method,
          args |-> DefaultArgs(args), chainId |-> cfg.chain_id,
          privateKey |-> cfg.private_key])

QueryRequest(cfg, address, method, args) ==
    Post(cfg, "/query",
         [contractAddress |-> address, method |-> method,
          args |-> DefaultArgs(args), chainId |-> cfg.chain_id])

\* The try block of query_contract.
QueryTry(resp) ==
    LET data == round_trip(resp)
        got  == getitem(data.val, "result")
    IN  IF ~data.ok THEN data
        ELSE IF ~got.ok THEN got
        ELSE Value(QueryResult(TRUE, got.val, None))

\* query_contract that sends the request a second time when the first try failed.
query_contract_retry(cfg, address, method, args, resp) ==
    LET req == QueryRequest(cfg, address, method, args)
        try == QueryTry(resp)
    IN  IF try.ok THEN Returned(<<req>>, try.val)
        ELSE Returned(<<req, req>>, QueryResult(FALSE, None, try.text))

query_contract(cfg, address, method, args, resp) ==
    LET reqs == <<QueryRequest(cfg, address, method, args)>>
        try  == QueryTry(resp)
    IN  IF try.ok THEN Returned(reqs, try.val)
        ELSE Returned(reqs, QueryResult(FALSE, None, try.text))

\* An ExecuteRequest that always sends the default value.
ExecuteRequest_zerovalue(cfg, address, method, args, value) ==
    Post(cfg, "/execute",
         [contractAddress |-> address, method |-> method,
          args |-> DefaultArgs(args), value |-> "0",
          chainId |-> cfg.chain_id, privateKey |-> cfg.private_key])

ExecuteRequest(cfg, address, method, args, value) ==
    Post(cfg, "/execute",
         [contractAddress |-> address, method |-> method,
          args |-> DefaultArgs(args), value |-> DefaultValue(value),
          chainId |-> cfg.chain_id, privateKey |-> cfg.private_key])

\* An ExecuteTry that derives the success flag from the status instead of
\* setting it.
ExecuteTry_statusflag(resp) ==
    LET data == round_trip(resp)
        got  == getitems(data.val, <<"txHash", "blockNumber", "gasUsed">>)
    IN  IF ~data.ok THEN data
        ELSE IF ~got.ok THEN got
        ELSE Value(TransactionResult(got.val[1], got.val[2], got.val[3],
                                     resp.status = 200))

\* The try block of execute_transaction.
ExecuteTry(resp) ==
    LET data == round_trip(resp)
        got  == getitems(data.val, <<"txHash", "blockNumber", "gasUsed">>)
    IN  IF ~data.ok THEN data
        ELSE IF ~got.ok THEN got
        ELSE Value(TransactionResult(got.val[1], got.val[2], got.val[3], TRUE))

\* execute_transaction without its signing-key precondition.
execute_transaction_unguarded(cfg, address, method, args, value, resp) ==
    LET reqs == <<ExecuteRequest(cfg, address, method, args, value)>>
        try  == ExecuteTry(resp)
    IN  IF try.ok THEN Returned(reqs, try.val)
        ELSE RaisedRuntimeError(reqs,
                 FString("Transaction execution failed: ", try.text))

execute_transaction(cfg, address, method, args, value, resp) ==
    IF Falsy(cfg.private_key)
    THEN RaisedRuntimeError(<<>>, <<"Private key required for transactions">>)
    ELSE LET reqs == <<ExecuteRequest(cfg, address, method, args, value)>>
             try  == ExecuteTry(resp)
         IN  IF try.ok THEN Returned(reqs, try.val)
             ELSE RaisedRuntimeError(reqs,
                      FString("Transaction execution failed: ", try.text))

get_transaction_receipt(cfg, tx_hash, resp) ==
    LET reqs == <<Get(cfg, "/tx/", tx_hash)>>
        try  == round_trip(resp)
    IN  IF try.ok THEN Returned(reqs, try.val)
        ELSE RaisedRuntimeError(reqs,
                 FString("Failed to get transaction receipt: ", try.text))

\* The try block of get_balance.
BalanceTry(resp) ==
    LET data == round_trip(resp)
    IN  IF ~data.ok THEN data ELSE getitem(data.val, "balance")

get_balance(cfg, address, resp) ==
    LET reqs == <<Get(cfg, "/balance/", address)>>
        try  == BalanceTry(resp)
    IN  IF try.ok THEN Returned(reqs, try.val)
        ELSE RaisedRuntimeError(reqs, FString("Failed to get balance: ", try.text))

GasRequest(cfg, address, method, args) ==
    Post(cfg, "/estimateGas",
         [contractAddress |-> address, method |-> method,
          args |-> DefaultArgs(args), chainId |-> cfg.chain_id])

\* A try block of estimate_gas that refuses a negative estimate.
GasTry_validated(resp) ==
    LET data == round_trip(resp)
        est  == IF ~data.ok THEN data ELSE getitem(data.val, "gasEstimate")
    IN  IF est.ok /\ est.val < 0 THEN Throw(<<"negative gas estimate">>) ELSE est

\* The try block of estimate_gas.
GasTry(resp) ==
    LET data == round_trip(resp)
    IN  IF ~data.ok THEN data ELSE getitem(data.val, "gasEstimate")

estimate_gas(cfg, address, method, args, resp) ==
    LET reqs == <<GasRequest(cfg, address, method, args)>>
        try  == GasTry(resp)
    IN  IF try.ok THEN Returned(reqs, try.val)
        ELSE RaisedRuntimeError(reqs, FString("Failed to estimate gas: ", try.text))
---------------------------------------------------------------------------
(* TokenContract and NFTContract *)

\* The f-string token_code: the template with name, symbol and total_supply
\* substituted.
TokenCode(name, symbol, total_supply) ==
    <<"contract Token { state { string name = \"", name,
      "\"; string symbol = \"", symbol,
      "\"; uint256 totalSupply = ", total_supply,
      "; ... } ... }">>

\* The f-string nft_code: the template with name and symbol substituted.
NFTCode(name, symbol) ==
    <<"contract NFT { state { string name = \"", name,
      "\"; string symbol = \"", symbol,
      "\"; uint256 nextTokenId = 1; ... } ... }">>

\* A deploy that stores the address only in a helper that had none.
AddressAfterDeploy_keep(address, out) ==
    IF out.raised \/ ~Falsy(address) THEN address ELSE out.value.contract_address

\* A deploy that forgets the helper's address when deploy_contract raises.
AddressAfterDeploy_clear(address, out) ==
    IF out.raised THEN None ELSE out.value.contract_address

\* `self.contract_address = deployment.contract_address`, reached only when
\* deploy_contract returned.
AddressAfterDeploy(address, out) ==
    IF out.raised THEN address ELSE out.value.contract_address

\* `if not self.contract_address: raise RuntimeError("Contract not deployed")`
NotDeployed == RaisedRuntimeError(<<>>, <<"Contract not deployed">>)

\* A token deploy that hands its parameters on as constructor arguments.
token_deploy_withargs(cfg, name, symbol, total_supply, resp) ==
    deploy_contract(cfg, TokenCode(name, symbol, total_supply),
                    <<name, symbol, total_supply>>, resp)

token_deploy(cfg, name, symbol, total_supply, resp) ==
    deploy_contract(cfg, TokenCode(name, symbol, total_supply), None, resp)

nft_deploy(cfg, name, symbol, resp) ==
    deploy_contract(cfg, NFTCode(name, symbol), None, resp)

\* A helper read that returns the error slot of the QueryResult instead of its data.
QueryData_error(out) == Returned(out.requests, out.value.error)

\* query_contract(...) followed by `return result.data`
QueryData(out) == Returned(out.requests, out.value.data)

\* balance_of without its address precondition.
balance_of_unguarded(cfg, self_address, address, resp) ==
    QueryData(query_contract(cfg, self_address, "balanceOf", <<address>>, resp))

balance_of(cfg, self_address, address, resp) ==
    IF Falsy(self_address) THEN NotDeployed
    ELSE QueryData(query_contract(cfg, self_address, "balanceOf", <<address>>, resp))

\* transfer passing its arguments to the contract in the other order.
transfer_swapped(cfg, self_address, to, amount, resp) ==
    IF Falsy(self_address) THEN NotDeployed
    ELSE execute_transaction(cfg, self_address, "transfer", <<amount, to>>, Omitted, resp)

transfer(cfg, self_address, to, amount, resp) ==
    IF Falsy(self_address) THEN NotDeployed
    ELSE execute_transaction(cfg, self_address, "transfer", <<to, amount>>, Omitted, resp)

\* approve that looks for the signing key before it looks for the address.
approve_keyfirst(cfg, self_address, spender, amount, resp) ==
    IF Falsy(cfg.private_key)
    THEN RaisedRuntimeError(<<>>, <<"Private key required for transactions">>)
    ELSE IF Falsy(self_address) THEN NotDeployed
    ELSE execute_transaction(cfg, self_address, "approve", <<spender, amount>>, Omitted, resp)

approve(cfg, self_address, spender, amount, resp) ==
    IF Falsy(self_address) THEN NotDeployed
    ELSE execute_transaction(cfg, self_address, "approve", <<spender, amount>>, Omitted, resp)

mint(cfg, self_address, to, uri, resp) ==
    IF Falsy(self_address) THEN NotDeployed
    ELSE execute_transaction(cfg, self_address, "mint", <<to, uri>>, Omitted, resp)

owner_of(cfg, self_address, token_id, resp) ==
    IF Falsy(self_address) THEN NotDeployed
    ELSE QueryData(query_contract(cfg, self_address, "ownerOf", <<token_id>>, resp))

---------------------------------------------------------------------------
(* Inputs of the calls *)

Codes == {<<"contract C {}">>}
OptArgs == {None, <<"a1">>}
Addresses == {"0xc1"}
Methods == {"getValue"}
Values == {Omitted, "5"}
TxHashes == {"0x2"}
Accounts == {"0xuser"}
Names == {"MyToken", "Other"}
Symbols == {"MTK"}
Supplies == {"1000000"}
Amounts == {"100"}
Uris == {"ipfs://metadata-uri"}
TokenIds == {1}

---------------------------------------------------------------------------
(* The state machine *)

\* The record of a call: what was called with what, what the server
\* answered (if anything was sent), and how the call ended.
Call(op, target, args, resp, out) ==
    [op |-> op, target |-> target, args |-> args,
     response |-> IF out.requests = <<>> THEN NoResponse ELSE resp,
     out |-> out]

NoCall == Call("none", "none", <<>>, NoResponse, Returned(<<>>, None))

\* The outcome slot of a call that is blocked in session.post/session.get.
Waiting(reqs) == Returned(reqs, None)

\* Helpers whose constructor drops the address it is given.
Init_ignoring ==
    /\ config \in AgefixConfig
    /\ constructed \in [Helpers -> CtorAddresses]
    /\ contract_address = [h \in Helpers |-> None]
    /\ deployed = [h \in Helpers |-> NoDeploy]
    /\ inflight = <<>>
    /\ last = NoCall

Init ==
    /\ config \in AgefixConfig
    /\ constructed \in [Helpers -> CtorAddresses]
    /\ contract_address = constructed
    /\ deployed = [h \in Helpers |-> NoDeploy]
    /\ inflight = <<>>
    /\ last = NoCall

\* An Outcome for a client that remembers the address of the latest token
\* deployment and sends its queries there.
Outcome_shared(op, target, args, resp) ==
    CASE op = "deploy_contract" -> deploy_contract(config, args[1], args[2], resp)
      [] op = "query_contract" ->
            query_contract(config,
                IF deployed["token"] = NoDeploy THEN args[1] ELSE deployed["token"],
                args[2], args[3], resp)
      [] op = "execute_transaction" ->
            execute_transaction(config, args[1], args[2], args[3], args[4], resp)
      [] op = "get_transaction_receipt" -> get_transaction_receipt(config, args[1], resp)
      [] op = "get_balance" -> get_balance(config, args[1], resp)
      [] op = "estimate_gas" -> estimate_gas(config, args[1], args[2], args[3], resp)
      [] op = "deploy" /\ target = "token" ->
            token_deploy(config, args[1], args[2], args[3], resp)
      [] op = "deploy" /\ target = "nft" -> nft_deploy(config, args[1], args[2], resp)
      [] op = "balance_of" ->
            balance_of(config, contract_address[target], args[1], resp)
      [] op = "transfer" ->
            transfer(config, contract_address[target], args[1], args[2], resp)
      [] op = "approve" ->
            approve(config, contract_address[target], args[1], args[2], resp)
      [] op = "mint" -> mint(config, contract_address[target], args[1], args[2], resp)
      [] op = "owner_of" -> owner_of(config, contract_address[target], args[1], resp)

\* What the call `op` on `target` with `args` comes to when its request is
\* answered with `resp`.
Outcome(op, target, args, resp) ==
    CASE op = "deploy_contract" -> deploy_contract(config, args[1], args[2], resp)
      [] op = "query_contract" ->
            query_contract(config, args[1], args[2], args[3], resp)
      [] op = "execute_transaction" ->
            execute_transaction(config, args[1], args[2], args[3], args[4], resp)
      [] op = "get_transaction_receipt" -> get_transaction_receipt(config, args[1], resp)
      [] op = "get_balance" -> get_balance(config, args[1], resp)
      [] op = "estimate_gas" -> estimate_gas(config, args[1], args[2], args[3], resp)
      [] op = "deploy" /\ target = "token" ->
            token_deploy(config, args[1], args[2], args[3], resp)
      [] op = "deploy" /\ target = "nft" -> nft_deploy(config, args[1], args[2], resp)
      [] op = "balance_of" ->
            balance_of(config, contract_address[target], args[1], resp)
      [] op = "transfer" ->
            transfer(config, contract_address[target], args[1], args[2], resp)
      [] op = "approve" ->
            approve(config, contract_address[target], args[1], args[2], resp)
      [] op = "mint" -> mint(config, contract_address[target], args[1], args[2], resp)
      [] op = "owner_of" -> owner_of(config, contract_address[target], args[1], resp)

\* The answers the endpoint of `op` may give.
ResponsesFor(op) ==
    CASE op \in {"deploy_contract", "deploy"} -> DeployResponses
      [] op \in {"query_contract", "balance_of", "owner_of"} -> QueryResponses
      [] op \in {"execute_transaction", "transfer", "approve", "mint"} -> ExecuteResponses
      [] op = "get_transaction_receipt" -> ReceiptResponses
      [] op = "get_balance" -> BalanceResponses
      [] op = "estimate_gas" -> GasResponses

\* A Start for a client that hands the request to the session and returns
\* without waiting for the answer.
Start_async(op, target, args) ==
    /\ LET out == Outcome(op, target, args, NoResponse)
       IN  IF out.requests = <<>>
           THEN /\ last' = Call(op, target, args, NoResponse, out)
                /\ inflight' = inflight
           ELSE /\ last' = Call(op, target, args, NoResponse, Waiting(out.requests))
                /\ inflight' = inflight \o out.requests
    /\ UNCHANGED <<config, contract_address, deployed, constructed>>

\* The caller enters a public call.  The call runs up to its request: if it
\* fails before sending one it is over at once, otherwise the request is on
\* the wire and the caller is blocked until Respond.  The caller is a single
\* thread, so it enters a call only when it is not blocked in another.
Start(op, target, args) ==
    /\ inflight = <<>>
    /\ LET out == Outcome(op, target, args, NoResponse)
       IN  IF out.requests = <<>>
           THEN /\ last' = Call(op, target, args, NoResponse, out)
                /\ inflight' = <<>>
           ELSE /\ last' = Call(op, target, args, NoResponse, Waiting(out.requests))
                /\ inflight' = out.requests
    /\ UNCHANGED <<config, contract_address, deployed, constructed>>

DeployContract ==
    \E code \in Codes, cargs \in OptArgs :
        Start("deploy_contract", "client", <<code, cargs>>)

QueryContract ==
    \E a \in Addresses, m \in Methods, args \in OptArgs :
        Start("query_contract", "client", <<a, m, args>>)

ExecuteTransaction ==
    \E a \in Addresses, m \in Methods, args \in OptArgs, v \in Values :
        Start("execute_transaction", "client", <<a, m, args, v>>)

GetTransactionReceipt ==
    \E h \in TxHashes : Start("get_transaction_receipt", "client", <<h>>)

GetBalance ==
    \E a \in Accounts : Start("get_balance", "client", <<a>>)

EstimateGas ==
    \E a \in Addresses, m \in Methods, args \in OptArgs :
        Start("estimate_gas", "client", <<a, m, args>>)

TokenDeploy ==
    \E n \in Names, s \in Symbols, t \in Supplies : Start("deploy", "token", <<n, s, t>>)

TokenBalanceOf ==
    \E a \in Accounts : Start("balance_of", "token", <<a>>)

TokenTransfer ==
    \E to \in Accounts, amt \in Amounts : Start("transfer", "token", <<to, amt>>)

TokenApprove ==
    \E sp \in Accounts, amt \in Amounts : Start("approve", "token", <<sp, amt>>)

NFTDeploy ==
    \E n \in Names, s \in Symbols : Start("deploy", "nft", <<n, s>>)

NFTMint ==
    \E to \in Accounts, uri \in Uris : Start("mint", "nft", <<to, uri>>)

NFTOwnerOf ==
    \E id \in TokenIds : Start("owner_of", "nft", <<id>>)

\* A deploy that keeps the address where every helper of the client reads it.
HelperDeploy_onclient(h, out) ==
    /\ contract_address' =
           [g \in Helpers |-> AddressAfterDeploy(contract_address[g], out)]
    /\ deployed' =
           [deployed EXCEPT ![h] = IF out.raised THEN @ ELSE out.value.contract_address]

\* The end of deploy through helper h: the address is stored only if
\* deploy_contract returned.
HelperDeploy(h, out) ==
    /\ contract_address' =
           [contract_address EXCEPT ![h] = AddressAfterDeploy(contract_address[h], out)]
    /\ deployed' =
           [deployed EXCEPT ![h] = IF out.raised THEN @ ELSE out.value.contract_address]

\* A Respond that drops the signing key from the config when the call fails.
Respond_forgetkey ==
    /\ inflight # <<>>
    /\ \E resp \in ResponsesFor(last.op) :
           LET out == Outcome(last.op, last.target, last.args, resp)
           IN  /\ last' = Call(last.op, last.target, last.args, resp, out)
               /\ IF last.op = "deploy"
                  THEN HelperDeploy(last.target, out)
                  ELSE UNCHANGED <<contract_address, deployed>>
               /\ config' = IF out.raised THEN [config EXCEPT !.private_key = None]
                            ELSE config
    /\ inflight' = <<>>
    /\ UNCHANGED constructed

\* A Respond in which a helper method that raises unbinds its helper.
Respond_unbind ==
    /\ inflight # <<>>
    /\ \E resp \in ResponsesFor(last.op) :
           LET out == Outcome(last.op, last.target, last.args, resp)
           IN  /\ last' = Call(last.op, last.target, last.args, resp, out)
               /\ IF last.op = "deploy"
                  THEN HelperDeploy(last.target, out)
                  ELSE /\ contract_address' =
                              IF last.target \in Helpers /\ out.raised
                              THEN [contract_address EXCEPT ![last.target] = None]
                              ELSE contract_address
                       /\ UNCHANGED deployed
    /\ inflight' = <<>>
    /\ UNCHANGED <<config, constructed>>

\* The session's call comes back (with a response or an exception) and the
\* blocked call runs to its end.  No method but a helper's deploy assigns
\* an attribute.
Respond ==
    /\ inflight # <<>>
    /\ \E resp \in ResponsesFor(last.op) :
           LET out == Outcome(last.op, last.target, last.args, resp)
           IN  /\ last' = Call(last.op, last.target, last.args, resp, out)
               /\ IF last.op = "deploy"
                  THEN HelperDeploy(last.target, out)
                  ELSE UNCHANGED <<contract_address, deployed>>
    /\ inflight' = <<>>
    /\ UNCHANGED <<config, constructed>>

Next ==
    \/ DeployContract
    \/ QueryContract
    \/ ExecuteTransaction
    \/ GetTransactionReceipt
    \/ GetBalance
    \/ EstimateGas
    \/ TokenDeploy
    \/ TokenBalanceOf
    \/ TokenTransfer
    \/ TokenApprove
    \/ NFTDeploy
    \/ NFTMint
    \/ NFTOwnerOf
    \/ Respond

Spec == Init /\ [][Next]_vars
---------------------------------------------------------------------------
(* Vocabulary of the properties *)

RaisingOps ==
    {"deploy_contract", "execute_transaction", "get_transaction_receipt",
     "get_balance", "estimate_gas"}
ClientOps == RaisingOps \cup {"query_contract"}
HelperQueries == {"balance_of", "owner_of"}
HelperExecutes == {"transfer", "approve", "mint"}
HelperMethods == HelperQueries \cup HelperExecutes

OnClient(op) == last.target = "client" /\ last.op = op
OnHelper(ops) == last.target \in Helpers /\ last.op \in ops

Sent == Len(last.out.requests)

\* The one request of the call was answered with a 2xx status and a JSON
\* object that has all of `keys`.
Answered2xxWith(keys) ==
    /\ Sent = 1
    /\ last.response.kind = "http"
    /\ last.response.status \in 200..299
    /\ last.response.body.kind = "dict"
    /\ keys \subseteq DOMAIN last.response.body.fields

AnsweredFields == last.response.body.fields

---------------------------------------------------------------------------
(* C1 *)

\* C1: query_contract never raises; for every exception thrown by the
\* session on POST /query it returns QueryResult(success=false, data=None)
\* with a non-empty error string.
C1_QueryTransportFailureNonEmptyError ==
    (OnClient("query_contract") /\ last.response.kind = "exception") =>
        /\ ~last.out.raised
        /\ last.out.value.success = FALSE
        /\ last.out.value.data = None
        /\ last.out.value.error # None
        /\ last.out.value.error # <<>>

---------------------------------------------------------------------------
(* C2 *)

\* C2: execute_transaction on a client without a signing key fails with an
\* error and sends no request, whatever the address, method, args and value.
C2_ExecuteWithoutKeySendsNothing ==
    (OnClient("execute_transaction") /\ config.private_key = None) =>
        /\ last.out.raised
        /\ last.out.exc = "RuntimeError"
        /\ Sent = 0

C2_Witness ==
    /\ OnClient("execute_transaction")
    /\ config.private_key = None
    /\ last.args[1] = "0xc1"
    /\ last.args[4] = "5"
    /\ last.out.raised

---------------------------------------------------------------------------
(* C3 *)

\* C3: balance_of, transfer, approve, mint and owner_of on a helper without
\* a contract address fail with the local error and send no request.
C3_NoAddressFailsLocally ==
    (OnHelper(HelperMethods) /\ contract_address[last.target] = None) =>
        /\ last.out.raised
        /\ last.out.message = <<"Contract not deployed">>
        /\ Sent = 0

C3_Witness ==
    /\ OnHelper({"balance_of"})
    /\ contract_address["token"] = None
    /\ contract_address["nft"] # None
    /\ last.out.raised

---------------------------------------------------------------------------
(* C4 *)

\* C4: once a deploy through a helper has succeeded, every request a later
\* balance_of, transfer, approve, mint or owner_of of that helper sends
\* carries as contractAddress exactly the address that deploy returned.
C4_HelperTargetsDeployedAddress ==
    (OnHelper(HelperMethods) /\ deployed[last.target] # NoDeploy) =>
        \A i \in 1..Sent :
            last.out.requests[i].json.contractAddress = deployed[last.target]

C4_Witness ==
    /\ OnHelper({"transfer"})
    /\ deployed["token"] = "0xdef"
    /\ Sent = 1
    /\ last.out.requests[1].json.contractAddress = "0xdef"

---------------------------------------------------------------------------
(* C5 *)

\* C5: when POST /deploy answers 2xx with contractAddress, txHash and
\* blockNumber, a helper deploy returns a deployment with exactly those
\* three values and the helper's contract address becomes that contractAddress.
C5_HelperDeployRoundTrip ==
    (OnHelper({"deploy"})
        /\ Answered2xxWith({"contractAddress", "txHash", "blockNumber"})) =>
        /\ ~last.out.raised
        /\ last.out.value.contract_address = AnsweredFields.contractAddress
        /\ last.out.value.transaction_hash = AnsweredFields.txHash
        /\ last.out.value.block_number = AnsweredFields.blockNumber
        /\ contract_address[last.target] = AnsweredFields.contractAddress

C5_Witness ==
    /\ OnHelper({"deploy"})
    /\ last.target = "token"
    /\ last.response = Answer(200, DictBody(DeploySample))
    /\ contract_address["token"] = "0xabc"
    /\ last.out.value = ContractDeployment("0xabc", "0x1", 10)
---------------------------------------------------------------------------
(* C6 *)

\* The text each raising call puts in front of the original message.
Prefix(op) ==
    CASE op = "deploy_contract" -> "Contract deployment failed: "
      [] op = "execute_transaction" -> "Transaction execution failed: "
      [] op = "get_transaction_receipt" -> "Failed to get transaction receipt: "
      [] op = "get_balance" -> "Failed to get balance: "
      [] op = "estimate_gas" -> "Failed to estimate gas: "

\* The response fields each raising call reads.
ExpectedKeys(op) ==
    CASE op = "deploy_contract" -> {"contractAddress", "txHash", "blockNumber"}
      [] op = "execute_transaction" -> {"txHash", "blockNumber", "gasUsed"}
      [] op = "get_transaction_receipt" -> {}
      [] op = "get_balance" -> {"balance"}
      [] op = "estimate_gas" -> {"gasEstimate"}

TransportError == Sent = 1 /\ last.response.kind = "exception"
Non2xx == Sent = 1 /\ last.response.kind = "http" /\ last.response.status \notin 200..299
MissingField(keys) ==
    /\ Sent = 1
    /\ last.response.kind = "http"
    /\ \E k \in keys :
           last.response.body.kind # "dict" \/ k \notin DOMAIN last.response.body.fields

\* C6: deploy_contract, execute_transaction (key configured),
\* get_transaction_receipt, get_balance and estimate_gas raise one
\* RuntimeError carrying the original message, and return nothing, whenever
\* the HTTP call throws, answers a non-2xx status, or answers a body that
\* lacks an expected field.
C6_RaisingCallsRaiseOnEveryFailure ==
    (last.target = "client" /\ last.op \in RaisingOps
        /\ (TransportError \/ Non2xx \/ MissingField(ExpectedKeys(last.op)))) =>
        /\ last.out.raised
        /\ last.out.exc = "RuntimeError"
        /\ last.out.value = None
        /\ Head(last.out.message) = Prefix(last.op)
        /\ TransportError => Tail(last.out.message) = last.response.message

---------------------------------------------------------------------------
(* C7 *)

\* C7: query_contract never raises and answers a non-2xx status, an
\* undecodable body and a 2xx body without "result" each with
\* QueryResult(success=false, data=None, error=<text>).
C7_QueryFailuresInBand ==
    (OnClient("query_contract")
        /\ (Non2xx \/ MissingField({"result"})
              \/ (Sent = 1 /\ last.response.kind = "http"
                    /\ last.response.body.kind = "invalid"))) =>
        /\ ~last.out.raised
        /\ last.out.value.success = FALSE
        /\ last.out.value.data = None
        /\ last.out.value.error # None

---------------------------------------------------------------------------
(* C8 *)

\* C8: every public client operation sends at most one request per call,
\* whether it succeeds or fails: exactly one for deploy, query, receipt,
\* balance, estimate_gas and execute with a key, none for execute without.
C8_OneRequestPerCall ==
    (last.target = "client" /\ last.op \in ClientOps) =>
        Sent = IF last.op = "execute_transaction" /\ Falsy(config.private_key)
               THEN 0 ELSE 1

C8_Witness ==
    /\ OnClient("query_contract")
    /\ last.response.kind = "exception"
    /\ Sent = 1
    /\ ~last.out.raised

---------------------------------------------------------------------------
(* C9 *)

\* C9: when POST /execute answers 2xx with txHash, blockNumber and gasUsed
\* and a signing key is configured, execute_transaction, transfer, approve
\* and mint return a TransactionResult with success=true and exactly those
\* three values.
C9_ExecuteRoundTrip ==
    ((OnClient("execute_transaction") \/ OnHelper(HelperExecutes))
        /\ ~Falsy(config.private_key)
        /\ Answered2xxWith({"txHash", "blockNumber", "gasUsed"})) =>
        /\ ~last.out.raised
        /\ last.out.value.success = TRUE
        /\ last.out.value.tx_hash = AnsweredFields.txHash
        /\ last.out.value.block_number = AnsweredFields.blockNumber
        /\ last.out.value.gas_used = AnsweredFields.gasUsed

C9_Witness ==
    /\ OnHelper({"transfer"})
    /\ last.response = Answer(200, DictBody(ExecuteSample))
    /\ last.out.value = TransactionResult("0x2", 11, 21000, TRUE)

---------------------------------------------------------------------------
(* C10 *)

\* C10: when POST /query answers 2xx with a result, balance_of and owner_of
\* on a helper with an address return exactly that result.
C10_HelperReadReturnsResult ==
    (OnHelper(HelperQueries) /\ Answered2xxWith({"result"})) =>
        /\ ~last.out.raised
        /\ last.out.value = AnsweredFields.result

C10_Witness ==
    /\ OnHelper({"balance_of"})
    /\ last.args = <<"0xuser">>
    /\ last.response = Answer(200, DictBody(QuerySample))
    /\ last.out.value = "500"
---------------------------------------------------------------------------
(* C11 *)

\* The latest call is over: the caller is not blocked in a request.
Done == inflight = <<>>

\* C11: execute_transaction (also through transfer, approve and mint) either
\* raises or returns a TransactionResult whose success flag is true; no
\* returned record encodes a failure.
C11_ReturnedTransactionIsSuccess ==
    ((OnClient("execute_transaction") \/ OnHelper(HelperExecutes))
        /\ Done /\ ~last.out.raised) =>
        last.out.value.success = TRUE

C11_Witness ==
    /\ OnClient("execute_transaction")
    /\ Done
    /\ last.response.kind = "http"
    /\ last.response.status = 201
    /\ ~last.out.raised
    /\ last.out.value.success = TRUE
---------------------------------------------------------------------------
(* C12 *)

\* The list a caller passed as args, the empty list if it passed none.
PassedArgs(a) == IF a = None THEN <<>> ELSE a

\* The value a caller passed, "0" if it passed none.
PassedValue(v) == IF v = Omitted THEN "0" ELSE v

ExpectedPost(path, payload) ==
    [method |-> "POST", url |-> <<config.rpc_url, path>>, json |-> payload,
     content_type |-> "application/json", timeout |-> 30]

ExpectedGet(path, what) ==
    [method |-> "GET", url |-> <<config.rpc_url, path, what>>, json |-> None,
     content_type |-> "application/json", timeout |-> 30]

\* The request section 6 prescribes for the latest client call.
ExpectedRequest ==
    LET a == last.args
    IN  CASE last.op = "deploy_contract" ->
               ExpectedPost("/deploy",
                   [code |-> a[1], args |-> PassedArgs(a[2]),
                    chainId |-> config.chain_id, privateKey |-> config.private_key])
          [] last.op = "query_contract" ->
               ExpectedPost("/query",
                   [contractAddress |-> a[1], method |-> a[2],
                    args |-> PassedArgs(a[3]), chainId |-> config.chain_id])
          [] last.op = "execute_transaction" ->
               ExpectedPost("/execute",
                   [contractAddress |-> a[1], method |-> a[2],
                    args |-> PassedArgs(a[3]), value |-> PassedValue(a[4]),
                    chainId |-> config.chain_id, privateKey |-> config.private_key])
          [] last.op = "get_transaction_receipt" -> ExpectedGet("/tx/", a[1])
          [] last.op = "get_balance" -> ExpectedGet("/balance/", a[1])
          [] last.op = "estimate_gas" ->
               ExpectedPost("/estimateGas",
                   [contractAddress |-> a[1], method |-> a[2],
                    args |-> PassedArgs(a[3]), chainId |-> config.chain_id])

\* C12: the request of each client operation goes to the operation's own
\* endpoint and carries the caller's values unchanged, the configured
\* chainId and privateKey, the empty list for omitted args and "0" for an
\* omitted value.
C12_RequestShape ==
    (last.target = "client" /\ last.op \in ClientOps /\ Sent > 0) =>
        /\ Sent = 1
        /\ ExpectedRequest = last.out.requests[1]

C12_Witness ==
    /\ OnClient("execute_transaction")
    /\ Sent = 1
    /\ last.args[3] = None
    /\ last.args[4] = "5"
    /\ last.out.requests[1].url = <<RpcUrl, "/execute">>
    /\ last.out.requests[1].json.args = <<>>
    /\ last.out.requests[1].json.value = "5"
    /\ last.out.requests[1].json.privateKey = "key1"
---------------------------------------------------------------------------
(* C13 *)

ReadOnlyOps ==
    {"query_contract", "estimate_gas", "get_balance", "get_transaction_receipt"}

\* The requests the latest read-only call would have sent on a client that
\* differs from this one only in its private key.
RequestsWithKey(k) ==
    LET cfg == [config EXCEPT !.private_key = k]
        a   == last.args
    IN  CASE last.op = "query_contract" ->
               query_contract(cfg, a[1], a[2], a[3], last.response).requests
          [] last.op = "estimate_gas" ->
               estimate_gas(cfg, a[1], a[2], a[3], last.response).requests
          [] last.op = "get_balance" -> get_balance(cfg, a[1], last.response).requests
          [] last.op = "get_transaction_receipt" ->
               get_transaction_receipt(cfg, a[1], last.response).requests

\* C13: the requests of query_contract, estimate_gas, get_balance and
\* get_transaction_receipt do not depend on the configured private key: a
\* client differing only in the key sends identical requests for equal
\* arguments, and no read-only payload has a privateKey field.
C13_ReadOnlyRequestsIgnoreKey ==
    (last.target = "client" /\ last.op \in ReadOnlyOps) =>
        /\ \A k \in PrivateKeys : RequestsWithKey(k) = last.out.requests
        /\ \A i \in 1..Sent :
               last.out.requests[i].method = "POST" =>
                   "privateKey" \notin DOMAIN last.out.requests[i].json

C13_Witness ==
    /\ OnClient("query_contract")
    /\ config.private_key = "key1"
    /\ Sent = 1
    /\ RequestsWithKey(None) = last.out.requests
---------------------------------------------------------------------------
(* C14 *)

\* C14: no client or helper operation, successful or failing, changes the
\* client's endpoint URL, chain id or private key.
C14_ConfigImmutable == [][config' = config]_vars

C14_Witness ==
    /\ Done
    /\ last.out.raised
    /\ Sent = 1
    /\ deployed["token"] # NoDeploy
    /\ config.private_key = "key1"
---------------------------------------------------------------------------
(* C15 *)

---------------------------------------------------------------------------
(* C16 *)

\* What the latest client call comes to when nothing but its arguments, the
\* config and the answer `resp` to its request is looked at.
Determined(resp) ==
    LET a == last.args
    IN  CASE last.op = "deploy_contract" -> deploy_contract(config, a[1], a[2], resp)
          [] last.op = "query_contract" -> query_contract(config, a[1], a[2], a[3], resp)
          [] last.op = "execute_transaction" ->
               execute_transaction(config, a[1], a[2], a[3], a[4], resp)
          [] last.op = "get_transaction_receipt" ->
               get_transaction_receipt(config, a[1], resp)
          [] last.op = "get_balance" -> get_balance(config, a[1], resp)
          [] last.op = "estimate_gas" -> estimate_gas(config, a[1], a[2], a[3], resp)

\* C16: the requests and the outcome of a client call are those its
\* arguments, the config and the answer to its one request determine,
\* whatever calls came before and whatever the helpers hold.
C16_OutcomeDeterminedByCall ==
    (last.target = "client" /\ last.op \in ClientOps) =>
        /\ last.out.requests = Determined(NoResponse).requests
        /\ Done => last.out = Determined(last.response)

C16_Witness ==
    /\ OnClient("query_contract")
    /\ Done
    /\ ~last.out.raised
    /\ last.out.value.success = TRUE
    /\ deployed["token"] = "0xabc"
    /\ deployed["nft"] = "0xdef"
    /\ contract_address["token"] # constructed["token"]
---------------------------------------------------------------------------
(* C17 *)

\* The contract method a helper method stands for.
ContractMethod ==
    CASE last.op = "balance_of" -> "balanceOf"
      [] last.op = "transfer" -> "transfer"
      [] last.op = "approve" -> "approve"
      [] last.op = "mint" -> "mint"
      [] last.op = "owner_of" -> "ownerOf"

\* The one client call the latest helper method stands for, answered with
\* `resp`: a query or an execute on the helper's address, with the fixed
\* method name, the helper's arguments in their order and no value.
Delegated(resp) ==
    IF last.op \in HelperQueries
    THEN query_contract(config, contract_address[last.target], ContractMethod,
                        last.args, resp)
    ELSE execute_transaction(config, contract_address[last.target], ContractMethod,
                             last.args, Omitted, resp)

\* C17: with an address set, a helper method is one client call: a query
\* (balance_of, owner_of) or an execute (transfer, approve, mint) with the
\* method name of the table and the helper's own arguments in their order.
\* It sends what that call sends and ends as that call ends, a read handing
\* back the data of the query's result.
C17_HelperDelegatesOneCall ==
    (OnHelper(HelperMethods) /\ ~Falsy(contract_address[last.target])) =>
        /\ last.out.requests = Delegated(NoResponse).requests
        /\ Sent <= 1
        /\ Sent = 1 =>
              /\ last.out.requests[1].url =
                     <<config.rpc_url,
                       IF last.op \in HelperQueries THEN "/query" ELSE "/execute">>
              /\ last.out.requests[1].json.method = ContractMethod
              /\ last.out.requests[1].json.args = last.args
        /\ (Done /\ last.op \in HelperExecutes) => last.out = Delegated(last.response)
        /\ (Done /\ last.op \in HelperQueries) =>
              /\ ~last.out.raised
              /\ last.out.value = Delegated(last.response).value.data

C17_Witness ==
    /\ OnHelper({"transfer"})
    /\ Done
    /\ Sent = 1
    /\ ~last.out.raised
    /\ last.args = <<"0xuser", "100">>
    /\ last.out.requests[1].json.method = "transfer"
    /\ last.out.requests[1].json.args = <<"0xuser", "100">>
    /\ last.out.requests[1].json.contractAddress = "0xabc"
---------------------------------------------------------------------------
(* C18 *)

PassThroughOps == {"get_transaction_receipt", "get_balance", "estimate_gas"}

\* The field of the answer that the call hands back; the receipt call hands
\* back the whole payload.
PassedField ==
    CASE last.op = "get_balance" -> "balance"
      [] last.op = "estimate_gas" -> "gasEstimate"
      [] last.op = "get_transaction_receipt" -> None

\* The server answered the latest call with a status that is no error
\* status and a JSON payload that holds what the call hands back.
AnsweredWithPayload ==
    /\ last.response.kind = "http"
    /\ last.response.status \notin 400..599
    /\ last.response.body.kind # "invalid"
    /\ PassedField # None =>
          /\ last.response.body.kind = "dict"
          /\ PassedField \in DOMAIN last.response.body.fields

\* C18: get_transaction_receipt, get_balance and estimate_gas hand the
\* server's answer back as it came: the whole payload, the "balance" value
\* and the "gasEstimate" value.  Whatever the value is, the call returns it
\* (nothing is validated), and it returns nothing else.
C18_PassThrough ==
    (Done /\ last.target = "client" /\ last.op \in PassThroughOps) =>
        /\ AnsweredWithPayload <=> ~last.out.raised
        /\ ~last.out.raised =>
              last.out.value = IF PassedField = None THEN last.response.body
                               ELSE last.response.body.fields[PassedField]

C18_Witness ==
    /\ OnClient("estimate_gas")
    /\ Done
    /\ last.response.kind = "http"
    /\ last.response.status = 200
    /\ ~last.out.raised
    /\ last.out.value = -1
---------------------------------------------------------------------------
(* C19 *)

\* The latest call is a method of a helper that was constructed with an
\* address and has not deployed since.
OnAttachedHelper ==
    /\ OnHelper(HelperMethods)
    /\ ~Falsy(constructed[last.target])
    /\ deployed[last.target] = NoDeploy

\* C19: every method of a helper that was constructed with the address of an
\* existing contract works without a deploy: the call does not fail on the
\* address precondition, a read sends its request, a write sends its request
\* whenever the client has a key, and every request targets the address the
\* constructor was given.
C19_ConstructedAddressUsable ==
    OnAttachedHelper =>
        /\ last.out # NotDeployed
        /\ (last.op \in HelperQueries \/ ~Falsy(config.private_key)) => Sent = 1
        /\ \A i \in 1..Sent :
               last.out.requests[i].json.contractAddress = constructed[last.target]

C19_Witness ==
    /\ OnAttachedHelper
    /\ last.op = "owner_of"
    /\ Done
    /\ Sent = 1
    /\ ~last.out.raised
    /\ constructed["nft"] = "0xold"
    /\ last.out.requests[1].json.contractAddress = "0xold"
---------------------------------------------------------------------------
(* C20 *)

\* The code text of the latest helper deploy, from its arguments alone.
RenderedCode ==
    IF last.target = "token"
    THEN TokenCode(last.args[1], last.args[2], last.args[3])
    ELSE NFTCode(last.args[1], last.args[2])

\* C20: a helper deploy sends exactly one request, a POST to /deploy whose
\* constructor-argument list is empty and whose code is the template filled
\* with the call's name, symbol and supply (name and symbol for the NFT) and
\* nothing else; when the deploy returns, the helper holds the address the
\* server answered with.
C20_HelperDeployRequest ==
    OnHelper({"deploy"}) =>
        /\ Sent = 1
        /\ last.out.requests[1] =
               ExpectedPost("/deploy",
                   [code |-> RenderedCode, args |-> <<>>,
                    chainId |-> config.chain_id, privateKey |-> config.private_key])
        /\ (Done /\ ~last.out.raised) =>
              /\ contract_address[last.target] = last.out.value.contract_address
              /\ contract_address[last.target] =
                     last.response.body.fields["contractAddress"]

C20_Witness ==
    /\ OnHelper({"deploy"})
    /\ last.target = "token"
    /\ Done
    /\ ~last.out.raised
    /\ last.args[1] = "Other"
    /\ last.out.requests[1].json.args = <<>>
    /\ constructed["token"] = "0xold"
    /\ contract_address["token"] = "0xdef"
---------------------------------------------------------------------------
(* C21 *)

\* The latest call is a helper deploy that has ended by raising.
DeployFailed == OnHelper({"deploy"}) /\ Done /\ last.out.raised

---------------------------------------------------------------------------
(* C22 *)

\* The latest call is a helper deploy that has returned.
DeploySucceeded == OnHelper({"deploy"}) /\ Done /\ ~last.out.raised

\* C22: a helper's contract address is the address its most recent
\* successful deploy returned, or the constructor's value while no deploy of
\* it has succeeded; a successful deploy overwrites whatever was there; and
\* the address changes in no step but the return of a deploy.
C22_AddressIsLatestDeploy ==
    /\ [](\A h \in Helpers :
             contract_address[h] =
                 IF deployed[h] = NoDeploy THEN constructed[h] ELSE deployed[h])
    /\ [][DeploySucceeded' =>
             contract_address'[last'.target] = last'.out.value.contract_address]_vars
    /\ [][contract_address' # contract_address => DeploySucceeded']_vars

C22_Witness ==
    /\ OnHelper({"transfer"})
    /\ Done
    /\ last.out.raised
    /\ Sent = 1
    /\ constructed["token"] = "0xold"
    /\ deployed["token"] = "0xdef"
    /\ contract_address["token"] = "0xdef"
    /\ deployed["nft"] = NoDeploy
    /\ contract_address["nft"] = "0xold"
---------------------------------------------------------------------------
(* C23 *)

\* C23: once a deploy through a helper has returned, no later balance_of,
\* transfer, approve, mint or owner_of of that helper fails with the local
\* "Contract not deployed" error, whatever address the server answered with.
C23_DeployedHelperUsable ==
    (OnHelper(HelperMethods) /\ deployed[last.target] # NoDeploy) =>
        ~(last.out.raised /\ last.out.message = <<"Contract not deployed">>)
---------------------------------------------------------------------------
(* C24 *)

\* C24: with an address set, balance_of and owner_of do not raise when the
\* /query round trip fails (the session throws, the status is not 2xx, the
\* body is no JSON or lacks "result"): they return None, the value they also
\* return for a successful query whose result is null.
C24_HelperReadSwallowsFailure ==
    (OnHelper(HelperQueries) /\ Done /\ ~Falsy(contract_address[last.target])
        /\ (TransportError \/ Non2xx \/ MissingField({"result"}))) =>
        /\ ~last.out.raised
        /\ last.out.value = None
---------------------------------------------------------------------------
(* C25 *)

\* C25: on a client without a private key deploy_contract (called directly
\* or by a helper's deploy) still sends exactly one request, a POST to
\* /deploy whose privateKey is null, and its outcome is decided by the
\* answer; execute_transaction on the same client sends none.
C25_DeployNeedsNoKey ==
    config.private_key = None =>
        /\ (OnClient("deploy_contract") \/ OnHelper({"deploy"})) =>
              /\ Sent = 1
              /\ last.out.requests[1].method = "POST"
              /\ last.out.requests[1].url = <<config.rpc_url, "/deploy">>
              /\ last.out.requests[1].json.privateKey = None
              /\ (Done /\ Answered2xxWith(ExpectedKeys("deploy_contract"))) =>
                     ~last.out.raised
        /\ OnClient("execute_transaction") => Sent = 0

C25_Witness ==
    /\ config.private_key = None
    /\ OnClient("deploy_contract")
    /\ Done
    /\ Sent = 1
    /\ ~last.out.raised
    /\ last.out.requests[1].json.privateKey = None
    /\ last.out.value.contract_address = "0xabc"
---------------------------------------------------------------------------
(* C26 *)

\* The text of the failure of the latest /query round trip: the exception's
\* own text, or that of the HTTPError, JSONDecodeError, TypeError or KeyError
\* raised on the answer.
FailureText ==
    LET r == last.response
    IN  IF r.kind = "exception" THEN r.message
        ELSE IF r.status \in 400..599 THEN HTTPErrorText(r.status)
        ELSE IF r.body.kind = "invalid" THEN JSONDecodeErrorText
        ELSE IF r.body.kind # "dict" THEN TypeErrorText
        ELSE KeyErrorText("result")

\* C26: query_contract always returns a QueryResult, of one of two shapes:
\* success=true with error None and data the "result" value of the answer,
\* or success=false with data None and error the text of the failure.
C26_QueryResultWellFormed ==
    (OnClient("query_contract") /\ Done) =>
        /\ ~last.out.raised
        /\ last.out.value.success \in BOOLEAN
        /\ last.out.value.success =>
              /\ last.out.value.error = None
              /\ last.response.kind = "http"
              /\ last.response.body.kind = "dict"
              /\ "result" \in DOMAIN last.response.body.fields
              /\ last.out.value.data = last.response.body.fields["result"]
        /\ ~last.out.value.success =>
              /\ last.out.value.data = None
              /\ last.out.value.error # None
              /\ last.out.value.error = FailureText

C26_Witness ==
    /\ OnClient("query_contract")
    /\ Done
    /\ last.response.kind = "http"
    /\ last.response.status = 404
    /\ ~last.out.value.success
    /\ last.out.value.data = None
    /\ last.out.value.error = <<"404", " Client Error">>
---------------------------------------------------------------------------
(* C27 *)

\* C27: transfer, approve and mint check the address first and the signing
\* key second, both before sending.  Without an address the call fails with
\* "Contract not deployed" whether or not there is a key; with an address
\* and without a key it fails with "Private key required for transactions",
\* that text alone and not behind the prefix of a failed execution; either
\* way no request is sent.  With both, the request is sent.
C27_AddressCheckedBeforeKey ==
    OnHelper(HelperExecutes) =>
        /\ Falsy(contract_address[last.target]) =>
              /\ last.out.raised
              /\ last.out.exc = "RuntimeError"
              /\ last.out.message = <<"Contract not deployed">>
              /\ Sent = 0
        /\ (~Falsy(contract_address[last.target]) /\ Falsy(config.private_key)) =>
              /\ last.out.raised
              /\ last.out.exc = "RuntimeError"
              /\ last.out.message = <<"Private key required for transactions">>
              /\ Sent = 0
        /\ (~Falsy(contract_address[last.target]) /\ ~Falsy(config.private_key)) =>
              Sent = 1

C27_Witness ==
    /\ OnHelper({"approve"})
    /\ contract_address["token"] = None
    /\ config.private_key = None
    /\ last.out.raised
    /\ last.out.message = <<"Contract not deployed">>
    /\ Sent = 0
---------------------------------------------------------------------------
(* C28 *)

\* C28: a step of a call on one helper, deploy included and whether it
\* returns or raises, changes neither the contract address of the other
\* helper of the same client nor the client's config; a step of a call on
\* the client changes no helper's address.
C28_HelpersIndependent ==
    [][/\ \A h \in Helpers :
             h # last'.target => contract_address'[h] = contract_address[h]
       /\ config' = config]_vars

C28_Witness ==
    /\ OnHelper({"deploy"})
    /\ last.target = "token"
    /\ DeploySucceeded
    /\ contract_address["token"] = "0xabc"
    /\ constructed["token"] = None
    /\ constructed["nft"] = "0xold"
    /\ contract_address["nft"] = "0xold"
---------------------------------------------------------------------------
(* C29 *)

\* C29: the empty string is treated as an absent value by both local
\* preconditions.  execute_transaction on a client whose private key is ""
\* ends as it does on a client without a key: the key error, no request.
\* Every method but deploy of a helper whose address is "" ends as on a
\* helper without an address: "Contract not deployed", no request.
C29_EmptyStringIsAbsent ==
    /\ (OnClient("execute_transaction") /\ config.private_key = "") =>
          /\ Sent = 0
          /\ last.out.raised
          /\ last.out =
                 execute_transaction([config EXCEPT !.private_key = None],
                     last.args[1], last.args[2], last.args[3], last.args[4],
                     NoResponse)
    /\ (OnHelper(HelperMethods) /\ contract_address[last.target] = "") =>
          /\ Sent = 0
          /\ last.out = NotDeployed

C29_Witness ==
    /\ OnHelper({"mint"})
    /\ deployed["nft"] = ""
    /\ contract_address["nft"] = ""
    /\ config.private_key = "key1"
    /\ Sent = 0
    /\ last.out.raised
====
